---- MODULE Spec2Model ----
(***************************************************************************)
(* A model of literate.py: the block grouper that cuts a script into       *)
(* CodeGroups, the OutputCage that captures what each group prints and     *)
(* draws, CodeGroup.execute / run_file that drive the groups, and          *)
(* CodeGroup.compile that renders them.                                    *)
(*                                                                         *)
(* Text is a sequence of symbols.  A symbol is one lexeme of the script    *)
(* ("if", "a", "'s'", "#c", ...), a blank " ", a newline "\n" or a         *)
(* backslash "\\"; every symbol is one column wide.                        *)
(***************************************************************************)
EXTENDS Integers, Sequences, FiniteSets, TLC

VARIABLES
    src,            \* the script: a sequence of physical lines
    pc,             \* where run_file is
    groups,         \* list(CodeGroup.iterate_groups_from_source(...))
    idx,            \* the position in groups of the for loops of run_file
    do_execute,     \* run_file's flag
    signal,         \* what exec(str(self), global_dict) ended with
    raised,         \* the exception that leaves run_file
    compile_results,\* run_file's list of the (compiled_rst, figure_dict)
    files,          \* the names of the files written to output_dir
    \* the OutputCage
    fig_index, last_drawn,
    my_stdout, my_stdout_old, my_stderr, my_stderr_old,
    \* the process: what sys.stdout and sys.stderr are bound to, what
    \* pylab.show, pylab.Figure.show and matplotlib.pyplot.show are bound
    \* to, and the numbers of pylab's open figures
    sys_stdout, sys_stderr, hook_show, hook_figure_show, hook_pyplot_show,
    fignums,
    \* history: for every figure recorded in fig_index, the index of the
    \* group that was executing when pylab_show recorded it
    first_shown,
    \* a line of tokens handed to _is_docstring, and what it returned
    arg_line, ret_content,
    \* a text handed to _equalize_docstring, and what it returned
    arg_docstring, ret_docstring,
    \* what extract_docstrings returned for each of the groups
    ret_docstrings

(***************************************************************************)
(* Bounds                                                                  *)
(***************************************************************************)
MaxLines == 3     \* physical lines of a script handed to the grouper
MaxRunLines == 2  \* physical lines of a script that run_file executes
MaxCalls == 3     \* characters written, figures opened and figures drawn, together
MaxTokens == 3    \* tokens of a line handed to _is_docstring alone
MaxDoc == 6       \* characters of a text handed to _equalize_docstring alone
MaxNoteLines == 4 \* physical lines of a script whose docstrings are extracted

(***************************************************************************)
(* Sequence helpers                                                        *)
(***************************************************************************)
RECURSIVE Flatten(_)
Flatten(ss) == IF ss = <<>> THEN <<>> ELSE Head(ss) \o Flatten(Tail(ss))

RECURSIVE Repeat(_, _)
Repeat(x, n) == IF n <= 0 THEN <<>> ELSE <<x>> \o Repeat(x, n - 1)

Last(s) == s[Len(s)]

(***************************************************************************)
(* The scripts.  A physical line has a kind, a keyword (for the lines      *)
(* of compound statements) and an indentation.                             *)
(***************************************************************************)
HeaderKeywords == {"if", "for", "try", "def"}
ClauseKeywords == {"elif", "else", "except", "finally"}

\* the compound lines of the scripts: "block" lines end with the colon and
\* open an indented body, "one" lines carry their body after the colon
CompoundLines ==
       {<<"block", kw>> : kw \in {"if", "def", "else"}}
  \cup {<<"one", kw>> : kw \in HeaderKeywords \cup ClauseKeywords}

PLine(kind, kw, ind) == [kind |-> kind, kw |-> kw, ind |-> ind]

\* the symbols of a physical line between its indentation and its newline
Body(l) ==
    CASE l.kind = "stmt"    -> <<"a">>
      [] l.kind = "doc"     -> <<"'s'">>
      [] l.kind = "cmt"     -> <<"#c">>
      [] l.kind = "blank"   -> <<>>
      [] l.kind = "dec"     -> <<"@", "d">>
      [] l.kind = "decopen" -> <<"@", "d", "(">>
      [] l.kind = "close"   -> <<")">>
      [] l.kind = "block"   -> <<l.kw, ":">>
      [] l.kind = "one"     -> <<l.kw, ":", "a">>

LineText(l) == Repeat(" ", l.ind) \o Body(l) \o <<"\n">>

\* the text of the file that run_file opens
SourceText(s) == Flatten([i \in 1..Len(s) |-> LineText(s[i])])

IsTrivia(l) == l.kind \in {"cmt", "blank"}
IsCompound(l) == l.kind \in {"block", "one"}

\* indexes of the lines of s that carry a statement (or part of one)
StmtIdx(s) == {i \in 1..Len(s) : ~IsTrivia(s[i])}

LastStmt(s) == IF StmtIdx(s) = {} THEN 0
               ELSE CHOOSE i \in StmtIdx(s) : \A j \in StmtIdx(s) : j <= i

\* the line that starts the logical line ending at statement line i
LogicalStart(s, i) == IF s[i].kind = "close" THEN i - 1 ELSE i

\* the last statement line at or before i whose indentation is at most d
PrevAtMost(s, i, d) ==
    LET c == {j \in StmtIdx(s) : j <= i /\ s[j].kind # "close" /\ s[j].ind <= d}
    IN  IF c = {} THEN 0 ELSE CHOOSE j \in c : \A k \in c : k <= j

\* may a clause with keyword kw follow the clause at line p ?
ClauseFollows(s, kw, p) ==
    /\ p > 0
    /\ IsCompound(s[p])
    /\ CASE kw = "elif"    -> s[p].kw \in {"if", "elif"}
         [] kw = "else"    -> s[p].kw \in {"if", "elif", "for", "except"}
         [] kw = "except"  -> s[p].kw \in {"try", "except"}
         [] kw = "finally" ->
              \/ s[p].kw \in {"try", "except"}
              \/ /\ s[p].kw = "else"
                 /\ LET q == PrevAtMost(s, p - 1, s[p].ind)
                    IN  q > 0 /\ IsCompound(s[q]) /\ s[q].kw = "except"

\* the physical lines that can follow the lines s in a valid script
NextLines(s) ==
    LET p   == LastStmt(s)
        cur == IF p = 0 THEN 0 ELSE s[LogicalStart(s, p)].ind
        inParen  == p > 0 /\ s[p].kind = "decopen" /\ p = Len(s)
        midParen == p > 0 /\ s[p].kind = "decopen"
        opens    == p > 0 /\ s[p].kind = "block"
        needDef  == p > 0 /\ s[p].kind \in {"dec", "close"}
        needClause == p > 0 /\ s[p].kind = "one" /\ s[p].kw = "try"
        inds == IF opens THEN {cur + 1} ELSE
                IF needDef \/ needClause THEN {cur} ELSE 0..cur
        heads == IF needDef THEN {"def"} ELSE HeaderKeywords
    IN  IF midParen
        THEN IF inParen THEN {PLine("close", "", 0)} ELSE {}
        ELSE
           {PLine("blank", "", 0)}
        \cup {PLine("cmt", "", d) : d \in {0, cur}}
        \cup {PLine(k, "", d) : k \in {"dec", "decopen"},
                                d \in IF needClause THEN {} ELSE inds}
        \cup {PLine(k, "", d) : k \in {"stmt", "doc"},
                                d \in IF needDef \/ needClause THEN {} ELSE inds}
        \cup {PLine(c[1], c[2], d) :
                   c \in {x \in CompoundLines : x[2] \in heads},
                   d \in IF needClause THEN {} ELSE inds}
        \cup {l \in {PLine(c[1], c[2], d) :
                        c \in {x \in CompoundLines : x[2] \in ClauseKeywords},
                        d \in 0..cur} :
                /\ ~opens /\ ~needDef
                /\ needClause => (l.ind = cur /\ l.kw \in {"except", "finally"})
                /\ ClauseFollows(s, l.kw, PrevAtMost(s, Len(s), l.ind))
                /\ s[PrevAtMost(s, Len(s), l.ind)].ind = l.ind}

\* is s a whole script ?
Complete(s) ==
    LET p == LastStmt(s)
    IN  p = 0 \/ ~(\/ s[p].kind \in {"decopen", "dec", "close", "block"}
                   \/ (s[p].kind = "one" /\ s[p].kw = "try"))

RECURSIVE Prefixes(_)
Prefixes(n) ==
    IF n = 0 THEN {<<>>}
    ELSE LET P == Prefixes(n - 1)
         IN  P \cup {Append(s, l) : <<s, l>> \in
                        UNION {{<<s, l>> : l \in NextLines(s)} :
                                  s \in {t \in P : Len(t) = n - 1}}}

Sources(n) == {s \in Prefixes(n) : Complete(s)}

(***************************************************************************)
(* tokenize.generate_tokens: the tokens of a script, each with its type,   *)
(* its string, its start and end position and the physical line it is on.  *)
(***************************************************************************)
Token(type, string, row, col, line) ==
    [type |-> type, string |-> string, srow |-> row, scol |-> col,
     erow |-> row, ecol |-> col + Len(string), line |-> line]

SymbolType(sym) ==
    CASE sym \in {":", "@", "(", ")", ";"} -> "OP"
      [] sym \in {"'s'", "''"}             -> "STRING"
      [] sym = "#c"                        -> "COMMENT"
      [] OTHER                             -> "NAME"

\* the tokens of the symbols body, the first of them at column col
BodyTokens(body, row, col, line) ==
    [k \in 1..Len(body) |->
        Token(SymbolType(body[k]), <<body[k]>>, row, col + k - 1, line)]

RECURSIVE TokenizeFrom(_, _, _)
TokenizeFrom(s, r, stack) ==
    IF r > Len(s)
    THEN [k \in 1..(Len(stack) - 1) |-> Token("DEDENT", <<>>, r, 0, <<>>)]
         \o <<Token("ENDMARKER", <<>>, r, 0, <<>>)>>
    ELSE
    LET l    == s[r]
        text == LineText(l)
        body == BodyTokens(Body(l), r, l.ind, text)
        eol  == l.ind + Len(Body(l))
        keep == SelectSeq(stack, LAMBDA d : d <= l.ind)
    IN  CASE l.kind = "blank" ->
               <<Token("NL", <<"\n">>, r, 0, text)>> \o TokenizeFrom(s, r + 1, stack)
          [] l.kind = "cmt" ->
               body \o <<Token("NL", <<"\n">>, r, eol, text)>>
                    \o TokenizeFrom(s, r + 1, stack)
          [] l.kind = "close" ->
               body \o <<Token("NEWLINE", <<"\n">>, r, eol, text)>>
                    \o TokenizeFrom(s, r + 1, stack)
          [] OTHER ->
               (IF l.ind > Last(stack)
                THEN <<Token("INDENT", Repeat(" ", l.ind), r, 0, text)>>
                ELSE [k \in 1..(Len(stack) - Len(keep)) |->
                         Token("DEDENT", <<>>, r, l.ind, text)])
               \o body
               \o <<Token(IF l.kind = "decopen" THEN "NL" ELSE "NEWLINE",
                          <<"\n">>, r, eol, text)>>
               \o TokenizeFrom(s, r + 1,
                      IF l.ind > Last(stack) THEN Append(stack, l.ind) ELSE keep)

Tokenize(s) == TokenizeFrom(s, 1, <<0>>)

(***************************************************************************)
(* Helper functions                                                        *)
(***************************************************************************)
\* _evaluate_indent_variation
EvaluateIndentVariation(token_seq) ==
    Cardinality({k \in 1..Len(token_seq) : token_seq[k].type = "INDENT"})
  - Cardinality({k \in 1..Len(token_seq) : token_seq[k].type = "DEDENT"})

IGNORABLE_TOKENS ==
    {"INDENT", "DEDENT", "COMMENT", "NEWLINE", "NL", "ENCODING", "ENDMARKER"}

\* the tokens of a line that the for loops of the helpers do not skip
Significant(token_line) ==
    SelectSeq(token_line, LAMBDA t : t.type \notin IGNORABLE_TOKENS)

\* _is_continued_block without 'finally' in its list
IsContinuedBlockNoFinally(token_line) ==
    LET sig == Significant(token_line)
    IN  /\ sig # <<>>
        /\ sig[1].type = "NAME"
        /\ sig[1].string \in {<<"elif">>, <<"else">>, <<"except">>}

\* _is_continued_block
IsContinuedBlock(token_line) ==
    LET sig == Significant(token_line)
    IN  /\ sig # <<>>
        /\ sig[1].type = "NAME"
        /\ sig[1].string \in {<<"elif">>, <<"else">>, <<"except">>, <<"finally">>}

\* eval(token.string) of a STRING token
EvalString(string) == IF string = <<"'s'">> THEN <<"s">> ELSE <<>>

\* _is_docstring: the content, or the empty string
RECURSIVE IsDocstringFrom(_, _, _)
IsDocstringFrom(token_line, k, content) ==
    IF k > Len(token_line) THEN content
    ELSE IF token_line[k].type \notin IGNORABLE_TOKENS \cup {"STRING"}
         THEN <<>>
         ELSE IsDocstringFrom(token_line, k + 1,
                  IF token_line[k].type = "STRING"
                  THEN content \o EvalString(token_line[k].string)
                  ELSE content)

\* _is_docstring that passes over a token that is no string instead of
\* giving up
IsDocstringLoose(token_line) ==
    Flatten([k \in 1..Len(token_line) |->
                IF token_line[k].type = "STRING"
                THEN EvalString(token_line[k].string) ELSE <<>>])

IsDocstring(token_line) == IsDocstringFrom(token_line, 1, <<>>)

\* _is_block_start
IsBlockStart(token_line) ==
    LET sig == Significant(token_line)
    IN  /\ sig # <<>>
        /\ Last(sig).type = "OP"
        /\ Last(sig).string = <<":">>

\* itertools.groupby(tokens, key): the runs of tokens with equal key
RECURSIVE GroupBy(_, _)
GroupBy(tokens, runs) ==
    IF tokens = <<>> THEN runs
    ELSE LET t == Head(tokens)
             key(x) == x.type = "NEWLINE"
         IN  IF runs # <<>> /\ key(Last(Last(runs))) = key(t)
             THEN GroupBy(Tail(tokens),
                          [runs EXCEPT ![Len(runs)] = Append(@, t)])
             ELSE GroupBy(Tail(tokens), Append(runs, <<t>>))

\* _generate_logical_lines
GenerateLogicalLines(tokens) ==
    LET res == GroupBy(tokens, <<>>)
    IN  [k \in 1..(Len(res) \div 2) |-> res[2 * k - 1] \o res[2 * k]]

(***************************************************************************)
(* The CodeGroup class                                                     *)
(***************************************************************************)
\* the empty dict
EmptyDict == [k \in {} |-> TRUE]

\* __init__ that forgets the previous group
CodeGroupUnlinked(block_lines, previous_block) ==
    [tokens |-> block_lines, previous |-> 0, results |-> EmptyDict]

\* CodeGroup.__init__; previous is the position of the previous group in
\* the list of the groups, 0 for None
CodeGroup(block_lines, previous_block) ==
    [tokens |-> block_lines, previous |-> previous_block, results |-> EmptyDict]

\* CodeGroup.get_index
RECURSIVE GetIndex(_, _)
GetIndex(gs, g) ==
    IF g.previous = 0 THEN 0 ELSE 1 + GetIndex(gs, gs[g.previous])

\* CodeGroup.lines
Lines(g) == GenerateLogicalLines(g.tokens)

\* str.strip
RECURSIVE LStrip(_)
LStrip(text) ==
    IF text # <<>> /\ Head(text) \in {" ", "\n"} THEN LStrip(Tail(text)) ELSE text

RECURSIVE RStrip(_)
RStrip(text) ==
    IF text # <<>> /\ Last(text) \in {" ", "\n"}
    THEN RStrip(SubSeq(text, 1, Len(text) - 1)) ELSE text

Strip(text) == RStrip(LStrip(text))

\* is_decorator of iterate_groups_from_source
IsDecorator(lg) ==
    LET line == Strip(Last(lg).line)
    IN  line # <<>> /\ line[1] = "@"

\* itertools.accumulate(map(_evaluate_indent_variation, lines))
RECURSIVE Accumulate(_, _)
Accumulate(lines, k) ==
    IF k = 0 THEN 0
    ELSE Accumulate(lines, k - 1) + EvaluateIndentVariation(lines[k])

\* iterate_groups_from_source that forgets the pending lines at the end of
\* the script
RECURSIVE IterateFromNoTail(_, _, _, _)
IterateFromNoTail(lines, k, last_group, out) ==
    IF k > Len(lines) THEN out
    ELSE
    LET line == lines[k]
        indent_level == Accumulate(lines, k)
    IN  IF indent_level = 0
        THEN IF last_group = <<>> \/ IsDecorator(last_group)
             THEN IterateFromNoTail(lines, k + 1, last_group \o line, out)
             ELSE IF IsContinuedBlock(line)
             THEN IterateFromNoTail(lines, k + 1, last_group \o line, out)
             ELSE IterateFromNoTail(lines, k + 1, line,
                                    Append(out, CodeGroup(last_group, Len(out))))
        ELSE IterateFromNoTail(lines, k + 1, last_group \o line, out)

\* the for loop of iterate_groups_from_source from line k on, and the code
\* after it; out holds the groups yielded so far
RECURSIVE IterateFrom(_, _, _, _)
IterateFrom(lines, k, last_group, out) ==
    IF k > Len(lines)
    THEN IF last_group # <<>>
         THEN Append(out, CodeGroup(last_group, Len(out)))
         ELSE out
    ELSE
    LET line == lines[k]
        indent_level == Accumulate(lines, k)
    IN  IF indent_level = 0
        THEN IF last_group = <<>> \/ IsDecorator(last_group)
             THEN IterateFrom(lines, k + 1, last_group \o line, out)
             ELSE IF IsContinuedBlock(line)
             THEN IterateFrom(lines, k + 1, last_group \o line, out)
             ELSE IterateFrom(lines, k + 1, line,
                              Append(out, CodeGroup(last_group, Len(out))))
        ELSE IterateFrom(lines, k + 1, last_group \o line, out)

\* CodeGroup.iterate_groups_from_source
IterateGroupsFromSource(tokens) ==
    IterateFrom(GenerateLogicalLines(tokens), 1, <<>>, <<>>)

\* tokenize.untokenize of tokens with positions: every token is put at its
\* position; a row that no token ended becomes a backslash and a newline
RECURSIVE UntokenizeFrom(_, _, _, _, _)
UntokenizeFrom(tokens, k, prev_row, prev_col, out) ==
    IF k > Len(tokens) \/ tokens[k].type = "ENDMARKER" THEN out
    ELSE
    LET t == tokens[k]
        row_offset == t.srow - prev_row
        col_offset == t.scol - (IF row_offset # 0 THEN 0 ELSE prev_col)
        white == Flatten(Repeat(<<"\\", "\n">>, row_offset)) \o Repeat(" ", col_offset)
        eol == t.type \in {"NEWLINE", "NL"}
    IN  UntokenizeFrom(tokens, k + 1,
                       IF eol THEN t.erow + 1 ELSE t.erow,
                       IF eol THEN 0 ELSE t.ecol,
                       out \o white \o t.string)

Untokenize(tokens) == UntokenizeFrom(tokens, 1, 1, 0, <<>>)

\* str.split('\n')
RECURSIVE Split(_, _)
Split(text, piece) ==
    IF text = <<>> THEN <<piece>>
    ELSE IF Head(text) = "\n" THEN <<piece>> \o Split(Tail(text), <<>>)
    ELSE Split(Tail(text), Append(piece, Head(text)))

\* "\n".join
RECURSIVE Join(_)
Join(pieces) ==
    IF pieces = <<>> THEN <<>>
    ELSE IF Len(pieces) = 1 THEN pieces[1]
    ELSE pieces[1] \o <<"\n">> \o Join(Tail(pieces))

\* itertools.dropwhile(is_whiteline, ...)
RECURSIVE DropWhiteLines(_)
DropWhiteLines(pieces) ==
    IF pieces # <<>> /\ Head(pieces) = <<"\\">>
    THEN DropWhiteLines(Tail(pieces)) ELSE pieces

\* CodeGroup.__str__ of a group with the given tokens
Str(tokens) ==
    LET groups_lines == DropWhiteLines(Split(Untokenize(tokens), <<>>))
    IN  Join(IF groups_lines[1] = <<"\n">> THEN Tail(groups_lines)
             ELSE groups_lines)


\* str.splitlines
SplitLines(text) ==
    LET pieces == Split(text, <<>>)
    IN  IF Last(pieces) = <<>> THEN SubSeq(pieces, 1, Len(pieces) - 1)
        ELSE pieces

\* count_indent of _equalize_docstring
RECURSIVE CountIndent(_)
CountIndent(line) ==
    IF line # <<>> /\ Head(line) \in {" ", "\t"}
    THEN 1 + CountIndent(Tail(line)) ELSE 0

\* min of a non-empty set of numbers
Min(S) == CHOOSE x \in S : \A y \in S : x <= y

\* _equalize_docstring that passes over the lines that are not indented
\* when it looks for the least indentation
EqualizeDocstringNonZero(docstring) ==
    LET all == SplitLines(docstring)
    IN  IF Len(all) <= 1 THEN docstring
        ELSE
        LET first_line == all[1]
            lines == Tail(all)
            indents == {CountIndent(lines[k]) :
                          k \in {j \in 1..Len(lines) : Strip(lines[j]) # <<>>}}
                       \ {0}
            min_indent == IF indents # {} THEN Min(indents) ELSE 0
            cut == [k \in 1..Len(lines) |->
                      IF Strip(lines[k]) # <<>>
                      THEN SubSeq(lines[k], min_indent + 1, Len(lines[k]))
                      ELSE lines[k]]
        IN  Join(<<first_line>> \o cut)

\* _equalize_docstring
EqualizeDocstring(docstring) ==
    LET all == SplitLines(docstring)
    IN  IF Len(all) <= 1 THEN docstring
        ELSE
        LET first_line == all[1]
            lines == Tail(all)
            indents == {CountIndent(lines[k]) :
                          k \in {j \in 1..Len(lines) : Strip(lines[j]) # <<>>}}
            min_indent == IF indents # {} THEN Min(indents) ELSE 0
            cut == [k \in 1..Len(lines) |->
                      IF Strip(lines[k]) # <<>>
                      THEN SubSeq(lines[k], min_indent + 1, Len(lines[k]))
                      ELSE lines[k]]
        IN  Join(<<first_line>> \o cut)

\* the text without the blanks it starts with
RECURSIVE LStripBlanks(_)
LStripBlanks(text) ==
    IF text # <<>> /\ Head(text) \in {" ", "\t"}
    THEN LStripBlanks(Tail(text)) ELSE text

\* eval of the text of a line that holds string literals only
EvalText(text) ==
    Flatten([k \in 1..Len(text) |->
                IF SymbolType(text[k]) = "STRING" THEN EvalString(<<text[k]>>)
                ELSE <<>>])

\* the lines of text, each after the prefix, joined by newlines
Indented(prefix, lines) ==
    Join([k \in 1..Len(lines) |-> prefix \o lines[k]])

\* the text that extract_docstrings builds for the docstring line after the
\* block start prev_line
DocstringText(prev_line, line) ==
    LET line_str_pre == Str(prev_line)
        line_str == EqualizeDocstring(EvalText(Str(line)))
        pre_lines == SelectSeq(SplitLines(line_str_pre),
                               LAMBDA l : Strip(l) # <<>>)
    IN     <<".. note::", "\n", "\n">> \o Repeat(" ", 4)
        \o <<".. code:: python", "\n", "\n">>
        \o Indented(Repeat(" ", 8), pre_lines) \o <<"\n", "\n">>
        \o Indented(Repeat(" ", 4), SplitLines(line_str)) \o <<"\n", "\n">>

\* does eval(text) raise IndentationError ?  eval passes over the blanks
\* that the text starts with, and then over comments and empty lines; it
\* raises when the first line that holds a string is indented
EvalRaises(text) ==
    LET t == LStripBlanks(text)
        strings == {p \in 1..Len(t) : SymbolType(t[p]) = "STRING"}
    IN  /\ strings # {}
        /\ LET p == Min(strings)
           IN  /\ p > 1 /\ t[p - 1] = " "
               /\ \E q \in 1..(p - 1) : t[q] = "\n"

\* CodeGroup.extract_docstrings: ok tells whether it returned, and then
\* docstrings is what it returned; otherwise error is what it raised
ExtractDocstrings(g) ==
    LET lines == Lines(g)
        doc_lines == [k \in 1..Len(lines) |-> IsDocstring(lines[k]) # <<>>]
        accepted == {k \in 2..Len(lines) :
                        /\ doc_lines[k]
                        /\ ~doc_lines[k - 1]
                        /\ IsBlockStart(lines[k - 1])}
        text(k) == IF k \in accepted
                   THEN <<DocstringText(lines[k - 1], lines[k])>> ELSE <<>>
    IN  IF \E k \in accepted : EvalRaises(Str(lines[k]))
        THEN [ok |-> FALSE, error |-> "IndentationError"]
        ELSE [ok |-> TRUE,
              docstrings |-> Flatten([k \in 1..Len(lines) |-> text(k)])]

\* CodeGroup.has_results
HasResults(g) ==
    /\ DOMAIN g.results # {}
    /\ \/ g.results.standard_output # <<>>
       \/ g.results.standard_error # <<>>
       \/ g.results.generated_figures # <<>>
       \/ g.results.exceptions_generated # "None"
       \/ g.results.interrupted

\* a name for the figure that leaves the index of the group out
FigureNameNoIndex(index, fig_idx) ==
    "figure_" \o ToString(fig_idx) \o ".png"

\* the name that compile gives to figure fig_idx of the group at index
FigureName(index, fig_idx) ==
    "figure_" \o ToString(index) \o "_" \o ToString(fig_idx) \o ".png"

\* the lines of a captured text, each after the prefix and before a newline
OutputLines(prefix, text) ==
    LET lines == Split(text, <<>>)
    IN  Flatten([k \in 1..Len(lines) |-> prefix \o lines[k] \o <<"\n">>])

\* compile that puts the standard output before the warnings
CompileOutputFirst(gs, g) ==
    LET content == IsDocstring(g.tokens)
        extracted == ExtractDocstrings(g)
        docs == extracted.docstrings
        has(key) == key \in DOMAIN g.results
        code ==   <<".. code:: python", "\n", "\n">>
               \o Indented(Repeat(" ", 4), Split(Str(g.tokens), <<>>))
        notes == Flatten([k \in 1..Len(docs) |-> <<"\n">> \o docs[k] \o <<"\n">>])
        gap == IF DOMAIN g.results # {} THEN <<"\n", "\n">> ELSE <<>>
        err == IF has("standard_error") /\ g.results.standard_error # <<>>
               THEN <<".. warning::", "\n", "\n">> \o Repeat(" ", 4)
                    \o <<"::", "\n", "\n">>
                    \o OutputLines(Repeat(" ", 8), g.results.standard_error)
               ELSE <<>>
        exc == IF has("exceptions_generated")
                  /\ g.results.exceptions_generated # "None"
               THEN <<".. warning:: Exception Raised", "\n", "\n">>
                    \o Repeat(" ", 4) \o <<"::", "\n", "\n">>
                    \o OutputLines(Repeat(" ", 8),
                                   <<g.results.exceptions_generated>>)
               ELSE <<>>
        out == IF has("standard_output") /\ g.results.standard_output # <<>>
               THEN <<"::", "\n", "\n">>
                    \o OutputLines(Repeat(" ", 4), g.results.standard_output)
               ELSE <<>>
        figures == IF has("generated_figures")
                   THEN g.results.generated_figures ELSE <<>>
        name(k) == FigureName(GetIndex(gs, g), k - 1)
        images == Flatten([k \in 1..Len(figures) |->
                     <<".. image:: ", "./", name(k), "\n", "\n">>])
        figure_dict == [n \in {name(k) : k \in 1..Len(figures)} |->
                          figures[CHOOSE k \in 1..Len(figures) : name(k) = n]]
    IN  IF content # <<>>
        THEN [ok |-> TRUE, rst |-> content \o <<"\n">>, figure_dict |-> EmptyDict]
        ELSE IF ~extracted.ok
        THEN [ok |-> FALSE, error |-> extracted.error]
        ELSE IF ~has("generated_figures")
        THEN [ok |-> FALSE, error |-> "UnboundLocalError"]
        ELSE [ok |-> TRUE,
              rst |-> code \o notes \o gap \o out \o exc \o err \o images,
              figure_dict |-> figure_dict]

\* CodeGroup.compile: ok tells whether it returned, and then rst and
\* figure_dict are what it returned; otherwise error is what it raised
Compile(gs, g) ==
    LET content == IsDocstring(g.tokens)
        extracted == ExtractDocstrings(g)
        docs == extracted.docstrings
        has(key) == key \in DOMAIN g.results
        code ==   <<".. code:: python", "\n", "\n">>
               \o Indented(Repeat(" ", 4), Split(Str(g.tokens), <<>>))
        notes == Flatten([k \in 1..Len(docs) |-> <<"\n">> \o docs[k] \o <<"\n">>])
        gap == IF DOMAIN g.results # {} THEN <<"\n", "\n">> ELSE <<>>
        err == IF has("standard_error") /\ g.results.standard_error # <<>>
               THEN <<".. warning::", "\n", "\n">> \o Repeat(" ", 4)
                    \o <<"::", "\n", "\n">>
                    \o OutputLines(Repeat(" ", 8), g.results.standard_error)
               ELSE <<>>
        exc == IF has("exceptions_generated")
                  /\ g.results.exceptions_generated # "None"
               THEN <<".. warning:: Exception Raised", "\n", "\n">>
                    \o Repeat(" ", 4) \o <<"::", "\n", "\n">>
                    \o OutputLines(Repeat(" ", 8),
                                   <<g.results.exceptions_generated>>)
               ELSE <<>>
        out == IF has("standard_output") /\ g.results.standard_output # <<>>
               THEN <<"::", "\n", "\n">>
                    \o OutputLines(Repeat(" ", 4), g.results.standard_output)
               ELSE <<>>
        figures == IF has("generated_figures")
                   THEN g.results.generated_figures ELSE <<>>
        name(k) == FigureName(GetIndex(gs, g), k - 1)
        images == Flatten([k \in 1..Len(figures) |->
                     <<".. image:: ", "./", name(k), "\n", "\n">>])
        figure_dict == [n \in {name(k) : k \in 1..Len(figures)} |->
                          figures[CHOOSE k \in 1..Len(figures) : name(k) = n]]
    IN  IF content # <<>>
        THEN [ok |-> TRUE, rst |-> content \o <<"\n">>, figure_dict |-> EmptyDict]
        ELSE IF ~extracted.ok
        THEN [ok |-> FALSE, error |-> extracted.error]
        ELSE IF ~has("generated_figures")
        THEN [ok |-> FALSE, error |-> "UnboundLocalError"]
        ELSE [ok |-> TRUE,
              rst |-> code \o notes \o gap \o err \o exc \o out \o images,
              figure_dict |-> figure_dict]

(***************************************************************************)
(* The OutputCage                                                          *)
(***************************************************************************)
\* get_stdout that forgets the text read before
GetStdoutWhole(str_old, str_new) == str_new

\* OutputCage.get_stdout: the text written since the last call
GetStdout(str_old, str_new) == SubSeq(str_new, Len(str_old) + 1, Len(str_new))

\* OutputCage.get_stderr
GetStderr(str_old, str_new) == SubSeq(str_new, Len(str_old) + 1, Len(str_new))

\* the elements of a set of numbers in increasing order
RECURSIVE Sorted(_)
Sorted(S) == IF S = {} THEN <<>> ELSE <<Min(S)>> \o Sorted(S \ {Min(S)})

\* the png that savefig writes for figure fig, and the hook that wrote it
Png(fig, by) == [fig |-> fig, by |-> by]

\* OutputCage.pylab_show: the figures it leaves in last_drawn
PylabShowDrawn(drawn, index, figs) ==
    LET new_figures == SelectSeq(Sorted(figs), LAMBDA fig : fig \notin index)
    IN  [k \in 1..Len(new_figures) |-> Png(new_figures[k], "pylab_show")]

\* OutputCage.figure_show: the figures it leaves in last_drawn
FigureShowDrawn(drawn, figure) == Append(drawn, Png(figure, "figure_show"))

\* the exceptions that a script raises: the requests to stop, and the
\* ordinary errors (subclasses of Exception)
Cooperative == {"KeyboardInterrupt", "SystemExit"}
ErrorKinds == {"ValueError", "JSONDecodeError"}

\* can the class of the exception be called with one argument, a message ?
\* (json.JSONDecodeError needs msg, doc and pos)
AcceptsMessage(e) == e # "JSONDecodeError"

NoException ==
    [type |-> "None", annotated |-> FALSE, index |-> 0, source |-> <<>>,
     repr |-> "", context |-> "None"]

\* the exception that the handler of execute raises for the error e:
\* type(e)(s + repr(e)), raised while e is being handled
Reraise(e, index, source) ==
    IF AcceptsMessage(e)
    THEN [type |-> e, annotated |-> TRUE, index |-> index, source |-> source,
          repr |-> e, context |-> e]
    ELSE [NoException EXCEPT !.type = "TypeError", !.context = e]

(***************************************************************************)
(* run_file                                                                *)
(***************************************************************************)
cage == <<fig_index, last_drawn, my_stdout, my_stdout_old, my_stderr,
          my_stderr_old>>
process == <<sys_stdout, sys_stderr, hook_show, hook_figure_show,
             hook_pyplot_show>>
line == <<arg_line, ret_content, arg_docstring, ret_docstring,
          ret_docstrings>>
vars == <<src, pc, groups, idx, do_execute, signal, raised, compile_results,
          files, cage, process, fignums, first_shown, line>>

\* the scripts that run_file executes
RunSources ==
    {s \in Sources(MaxRunLines) :
        \A k \in 1..Len(s) :
            \/ s[k].kind \in {"stmt", "doc"}
            \/ s[k].kind = "block" /\ s[k].kw = "def"}

\* the lines of tokens handed to _is_docstring
LineTokens ==
    {Token(SymbolType(sym), <<sym>>, 1, 0, <<>>) : sym \in {"a", ";", "'s'", "''", "#c"}}
    \cup {Token(type, <<"\n">>, 1, 0, <<>>) : type \in {"NL", "NEWLINE"}}
    \cup {Token(type, <<>>, 1, 0, <<>>) :
             type \in {"INDENT", "DEDENT", "ENCODING", "ENDMARKER"}}

TokenLines(n) == UNION {[1..m -> LineTokens] : m \in 0..n}

\* the state after OutputCage() in a process that shows nothing yet
InitRest ==
    /\ groups = <<>> /\ idx = 1 /\ do_execute = TRUE
    /\ signal = "None" /\ raised = NoException
    /\ compile_results = <<>> /\ files = {}
    /\ fig_index = {} /\ last_drawn = <<>>
    /\ my_stdout = <<>> /\ my_stdout_old = <<>>
    /\ my_stderr = <<>> /\ my_stderr_old = <<>>
    /\ sys_stdout = "original" /\ sys_stderr = "original"
    /\ hook_show = "pylab" /\ hook_figure_show = "pylab"
    /\ hook_pyplot_show = "pylab"
    /\ fignums = {} /\ first_shown = EmptyDict
    /\ ret_content = <<>> /\ ret_docstring = <<>> /\ ret_docstrings = <<>>

Init ==
    /\ src \in RunSources /\ pc = "read"
    /\ arg_line = <<>> /\ arg_docstring = <<>> /\ InitRest

InitGroup ==
    /\ src \in Sources(MaxLines) /\ pc = "read"
    /\ arg_line = <<>> /\ arg_docstring = <<>> /\ InitRest

InitLine ==
    /\ src = <<>> /\ pc = "line"
    /\ arg_line \in TokenLines(MaxTokens) /\ arg_docstring = <<>> /\ InitRest

\* the texts handed to _equalize_docstring
Docstrings(n) == UNION {[1..m -> {"s", " ", "\n"}] : m \in 0..n}

InitDoc ==
    /\ src = <<>> /\ pc = "docstring"
    /\ arg_line = <<>> /\ arg_docstring \in Docstrings(MaxDoc) /\ InitRest

\* the scripts of up to n lines made of plain statements, strings, the
\* headers of blocks, comments and empty lines
RECURSIVE BlockPrefixes(_)
BlockPrefixes(n) ==
    IF n = 0 THEN {<<>>}
    ELSE LET P == BlockPrefixes(n - 1)
         IN  P \cup {Append(s, l) : <<s, l>> \in
                        UNION {{<<s, l>> : l \in {x \in NextLines(s) :
                                      x.kind \in {"stmt", "doc", "block",
                                                   "cmt", "blank"}}} :
                                  s \in {t \in P : Len(t) = n - 1}}}

\* the scripts whose docstrings are extracted
NoteSources == {s \in BlockPrefixes(MaxNoteLines) : Complete(s)}

InitNotes ==
    /\ src \in NoteSources /\ pc = "read"
    /\ arg_line = <<>> /\ arg_docstring = <<>> /\ InitRest

\* group.extract_docstrings() of every group of the script
Extract ==
    /\ pc = "loop"
    /\ ret_docstrings' = [i \in 1..Len(groups) |-> ExtractDocstrings(groups[i])]
    /\ pc' = "extracted"
    /\ UNCHANGED <<src, groups, idx, do_execute, signal, raised,
                   compile_results, files, cage, process, fignums,
                   first_shown, arg_line, ret_content, arg_docstring,
                   ret_docstring>>

\* _equalize_docstring(docstring)
Equalize ==
    /\ pc = "docstring"
    /\ ret_docstring' = EqualizeDocstring(arg_docstring)
    /\ pc' = "equalized"
    /\ UNCHANGED <<src, groups, idx, do_execute, signal, raised,
                   compile_results, files, cage, process, fignums,
                   first_shown, arg_line, ret_content, arg_docstring,
                   ret_docstrings>>

\* _is_docstring(token_line)
Classify ==
    /\ pc = "line"
    /\ ret_content' = IsDocstring(arg_line)
    /\ pc' = "classified"
    /\ UNCHANGED <<src, groups, idx, do_execute, signal, raised,
                   compile_results, files, cage, process, fignums,
                   first_shown, arg_line, arg_docstring, ret_docstring,
                   ret_docstrings>>

\* run_file, lines 558-566: the groups of the script
ReadGroups ==
    /\ pc = "read"
    /\ groups' = IterateGroupsFromSource(Tokenize(src))
    /\ idx' = 1
    /\ do_execute' = TRUE
    /\ pc' = "loop"
    /\ UNCHANGED <<src, signal, raised, compile_results, files, cage, process,
                   fignums, first_shown, line>>

\* execute, up to the exec of the code: redifine_output up to its yield
EnterCage ==
    /\ pc = "loop" /\ idx <= Len(groups) /\ do_execute
    /\ sys_stdout' = "cage" /\ sys_stderr' = "cage"
    /\ hook_show' = "cage" /\ hook_figure_show' = "cage"
    /\ hook_pyplot_show' = "cage"
    /\ pc' = "body"
    /\ UNCHANGED <<src, groups, idx, do_execute, signal, raised,
                   compile_results, files, cage, fignums, first_shown, line>>

\* the for loop of run_file passes a group when do_execute is false
SkipGroup ==
    /\ pc = "loop" /\ idx <= Len(groups) /\ ~do_execute
    /\ idx' = idx + 1
    /\ UNCHANGED <<src, pc, groups, do_execute, signal, raised,
                   compile_results, files, cage, process, fignums,
                   first_shown, line>>

\* the code of the group that is executing can act: a string alone cannot
Acting == pc = "body" /\ IsDocstring(groups[idx].tokens) = <<>>

\* the text that the group at position i wrote to a sink
WrittenBy(i, sink) == SelectSeq(sink, LAMBDA c : c = ToString(i))

\* what the script has done so far: the characters it wrote, the figures it
\* opened, the figures that wait in last_drawn
Calls ==
    Len(my_stdout) + Len(my_stderr) + Cardinality(fignums) + Len(last_drawn)

\* the code writes a character to sys.stdout or sys.stderr; the character
\* names the group that writes it
UserWrite(stream) ==
    /\ Acting
    /\ \/ /\ stream = "stdout" /\ sys_stdout = "cage"
          /\ Calls < MaxCalls
          /\ my_stdout' = Append(my_stdout, ToString(idx))
          /\ UNCHANGED my_stderr
       \/ /\ stream = "stderr" /\ sys_stderr = "cage"
          /\ Calls < MaxCalls
          /\ my_stderr' = Append(my_stderr, ToString(idx))
          /\ UNCHANGED my_stdout
    /\ UNCHANGED <<src, pc, groups, idx, do_execute, signal, raised,
                   compile_results, files, fig_index, last_drawn,
                   my_stdout_old, my_stderr_old, process, fignums,
                   first_shown, line>>

\* the code opens a figure: pylab.figure()
UserFigure ==
    /\ Acting
    /\ Calls < MaxCalls
    /\ fignums' = fignums \cup {Cardinality(fignums) + 1}
    /\ UNCHANGED <<src, pc, groups, idx, do_execute, signal, raised,
                   compile_results, files, cage, process, first_shown, line>>

\* the code calls pylab.show() or matplotlib.pyplot.show(): pylab_show
PylabShow(entry) ==
    /\ Acting
    /\ entry = "cage"
    /\ last_drawn' = PylabShowDrawn(last_drawn, fig_index, fignums)
    /\ fig_index' = fig_index \cup fignums
    /\ first_shown' = [fig \in fig_index \cup fignums |->
                          IF fig \in fig_index THEN first_shown[fig] ELSE idx]
    /\ UNCHANGED <<src, pc, groups, idx, do_execute, signal, raised,
                   compile_results, files, my_stdout, my_stdout_old,
                   my_stderr, my_stderr_old, process, fignums, line>>

\* the code calls the show of one of its figures: figure_show
FigureShow(figure) ==
    /\ Acting
    /\ hook_figure_show = "cage"
    /\ Calls < MaxCalls
    /\ last_drawn' = FigureShowDrawn(last_drawn, figure)
    /\ UNCHANGED <<src, pc, groups, idx, do_execute, signal, raised,
                   compile_results, files, fig_index, my_stdout,
                   my_stdout_old, my_stderr, my_stderr_old, process, fignums,
                   first_shown, line>>

\* exec(str(self), global_dict) returns
UserReturn ==
    /\ pc = "body"
    /\ signal' = "None"
    /\ pc' = "ran"
    /\ UNCHANGED <<src, groups, idx, do_execute, raised, compile_results,
                   files, cage, process, fignums, first_shown, line>>

\* exec(str(self), global_dict) raises e
UserRaise(e) ==
    /\ Acting
    /\ signal' = e
    /\ pc' = "ran"
    /\ UNCHANGED <<src, groups, idx, do_execute, raised, compile_results,
                   files, cage, process, fignums, first_shown, line>>

\* execute, line 422: is e caught as a request to stop ?
IsInterrupt(e) == e \in {"KeyboardInterrupt", "SystemExit"}

\* run_file that goes on after an interrupted group
NextDoExecuteAlways(results) == TRUE

\* run_file, line 570
NextDoExecute(results) == ~results.interrupted

\* redifine_output that restores the streams and forgets the shows
RestoreStreamsOnly ==
    /\ sys_stdout' = "original" /\ sys_stderr' = "original"
    /\ UNCHANGED <<hook_show, hook_figure_show, hook_pyplot_show>>

\* the finally of redifine_output
Restore ==
    /\ sys_stdout' = "original" /\ sys_stderr' = "original"
    /\ hook_show' = "pylab" /\ hook_figure_show' = "pylab"
    /\ hook_pyplot_show' = "pylab"

\* execute and a loop of run_file that does not move on to the next group
ExecuteReturnStays ==
    /\ pc = "ran" /\ (signal = "None" \/ IsInterrupt(signal))
    /\ LET do_interrupt == IsInterrupt(signal)
           results == [standard_output |-> GetStdout(my_stdout_old, my_stdout),
                       standard_error |-> GetStderr(my_stderr_old, my_stderr),
                       generated_figures |-> last_drawn,
                       exceptions_generated |-> "None",
                       interrupted |-> do_interrupt]
       IN  /\ groups' = [groups EXCEPT ![idx].results = results]
           /\ do_execute' = NextDoExecute(results)
    /\ my_stdout_old' = my_stdout
    /\ my_stderr_old' = my_stderr
    /\ last_drawn' = <<>>
    /\ Restore
    /\ signal' = "None"
    /\ idx' = IF IsInterrupt(signal) THEN idx + 1 ELSE idx
    /\ pc' = "loop"
    /\ UNCHANGED <<src, raised, compile_results, files, fig_index, my_stdout,
                   my_stderr, fignums, first_shown, line>>

\* execute that stores empty results for a group that asked to stop
ExecuteReturnDropsPartial ==
    /\ pc = "ran" /\ (signal = "None" \/ IsInterrupt(signal))
    /\ LET do_interrupt == IsInterrupt(signal)
           results == [standard_output |->
                           IF do_interrupt THEN <<>>
                           ELSE GetStdout(my_stdout_old, my_stdout),
                       standard_error |->
                           IF do_interrupt THEN <<>>
                           ELSE GetStderr(my_stderr_old, my_stderr),
                       generated_figures |->
                           IF do_interrupt THEN <<>> ELSE last_drawn,
                       exceptions_generated |-> "None",
                       interrupted |-> do_interrupt]
       IN  /\ groups' = [groups EXCEPT ![idx].results = results]
           /\ do_execute' = NextDoExecute(results)
    /\ my_stdout_old' = my_stdout
    /\ my_stderr_old' = my_stderr
    /\ last_drawn' = <<>>
    /\ Restore
    /\ signal' = "None"
    /\ idx' = idx + 1
    /\ pc' = "loop"
    /\ UNCHANGED <<src, raised, compile_results, files, fig_index, my_stdout,
                   my_stderr, fignums, first_shown, line>>

\* execute after the exec returned or was asked to stop, and the two lines
\* of the loop of run_file after it
ExecuteReturn ==
    /\ pc = "ran" /\ (signal = "None" \/ IsInterrupt(signal))
    /\ LET do_interrupt == IsInterrupt(signal)
           out == GetStdout(my_stdout_old, my_stdout)
           err == GetStderr(my_stderr_old, my_stderr)
           results == [standard_output |-> out,
                       standard_error |-> err,
                       generated_figures |-> last_drawn,
                       exceptions_generated |-> "None",
                       interrupted |-> do_interrupt]
       IN  /\ groups' = [groups EXCEPT ![idx].results = results]
           /\ do_execute' = NextDoExecute(results)
    /\ my_stdout_old' = my_stdout
    /\ my_stderr_old' = my_stderr
    /\ last_drawn' = <<>>
    /\ Restore
    /\ signal' = "None"
    /\ idx' = idx + 1
    /\ pc' = "loop"
    /\ UNCHANGED <<src, raised, compile_results, files, fig_index, my_stdout,
                   my_stderr, fignums, first_shown, line>>

\* execute that saves the error of the code in the results, as its comment
\* says, and returns
ExecuteRecordsError ==
    /\ pc = "ran" /\ signal # "None" /\ ~IsInterrupt(signal)
    /\ LET results == [standard_output |-> GetStdout(my_stdout_old, my_stdout),
                       standard_error |-> GetStderr(my_stderr_old, my_stderr),
                       generated_figures |-> last_drawn,
                       exceptions_generated |-> signal,
                       interrupted |-> FALSE]
       IN  /\ groups' = [groups EXCEPT ![idx].results = results]
           /\ do_execute' = NextDoExecute(results)
    /\ my_stdout_old' = my_stdout
    /\ my_stderr_old' = my_stderr
    /\ last_drawn' = <<>>
    /\ Restore
    /\ signal' = "None"
    /\ idx' = idx + 1
    /\ pc' = "loop"
    /\ UNCHANGED <<src, raised, compile_results, files, fig_index, my_stdout,
                   my_stderr, fignums, first_shown, line>>

\* execute that reads the cage before it raises again: the cursors advance
\* and the figures that wait are dropped
ExecuteReraiseDrains ==
    /\ pc = "ran" /\ signal # "None" /\ ~IsInterrupt(signal)
    /\ raised' = Reraise(signal, GetIndex(groups, groups[idx]),
                         Str(groups[idx].tokens))
    /\ my_stdout_old' = my_stdout
    /\ my_stderr_old' = my_stderr
    /\ last_drawn' = <<>>
    /\ Restore
    /\ pc' = "aborted"
    /\ UNCHANGED <<src, groups, idx, do_execute, signal, compile_results,
                   files, fig_index, my_stdout, my_stderr, fignums,
                   first_shown, line>>

\* execute that swallows an ordinary error: run_file goes on with the next
\* group
ExecuteSwallow ==
    /\ pc = "ran" /\ signal # "None" /\ ~IsInterrupt(signal)
    /\ Restore
    /\ signal' = "None"
    /\ idx' = idx + 1
    /\ pc' = "loop"
    /\ UNCHANGED <<src, groups, do_execute, raised, compile_results, files,
                   cage, fignums, first_shown, line>>

\* execute after the exec raised an ordinary error: the handler raises
\* again, the cage restores, and the exception leaves run_file
ExecuteReraise ==
    /\ pc = "ran" /\ signal # "None" /\ ~IsInterrupt(signal)
    /\ raised' = Reraise(signal, GetIndex(groups, groups[idx]),
                         Str(groups[idx].tokens))
    /\ Restore
    /\ pc' = "aborted"
    /\ UNCHANGED <<src, groups, idx, do_execute, signal, compile_results,
                   files, cage, fignums, first_shown, line>>

\* run_file after the loop: pylab.close('all')
CloseFigures ==
    /\ pc = "loop" /\ idx > Len(groups)
    /\ fignums' = {}
    /\ idx' = 1
    /\ pc' = "compile"
    /\ UNCHANGED <<src, groups, do_execute, signal, raised, compile_results,
                   files, cage, process, first_shown, line>>

\* run_file, line 593: group.compile(output_dir) of the next group
CompileGroup ==
    /\ pc = "compile" /\ idx <= Len(groups)
    /\ LET r == Compile(groups, groups[idx])
       IN  IF r.ok
           THEN /\ compile_results' = Append(compile_results,
                       [rst |-> r.rst, figure_dict |-> r.figure_dict])
                /\ idx' = idx + 1
                /\ UNCHANGED <<pc, raised>>
           ELSE /\ raised' = [NoException EXCEPT !.type = r.error]
                /\ pc' = "aborted"
                /\ UNCHANGED <<idx, compile_results>>
    /\ UNCHANGED <<src, groups, do_execute, signal, files, cage, process,
                   fignums, first_shown, line>>

\* run_file, lines 595-610: the figures, the rst and the html are written
WriteFiles ==
    /\ pc = "compile" /\ idx > Len(groups)
    /\ files' = {"rst", "html"} \cup
                UNION {DOMAIN compile_results[k].figure_dict :
                          k \in 1..Len(compile_results)}
    /\ pc' = "done"
    /\ UNCHANGED <<src, groups, idx, do_execute, signal, raised,
                   compile_results, cage, process, fignums, first_shown, line>>

Next ==
    \/ ReadGroups
    \/ EnterCage
    \/ SkipGroup
    \/ \E stream \in {"stdout", "stderr"} : UserWrite(stream)
    \/ UserFigure
    \/ \E entry \in {hook_show, hook_pyplot_show} : PylabShow(entry)
    \/ \E figure \in fignums : FigureShow(figure)
    \/ UserReturn
    \/ \E e \in Cooperative \cup ErrorKinds : UserRaise(e)
    \/ ExecuteReturn
    \/ ExecuteReraise
    \/ CloseFigures
    \/ CompileGroup
    \/ WriteFiles

Spec == Init /\ [][Next]_vars

\* a caller of execute that catches the error of a group and executes the
\* next group with the same cage and the same globals
CallerGoesOn ==
    /\ pc = "aborted" /\ raised.context # "None"
    /\ raised' = NoException
    /\ signal' = "None"
    /\ idx' = idx + 1
    /\ pc' = "loop"
    /\ UNCHANGED <<src, groups, do_execute, compile_results, files, cage,
                   process, fignums, first_shown, line>>

\* the loop over the groups with such a caller around execute
NextCaller ==
    \/ ReadGroups
    \/ EnterCage
    \/ SkipGroup
    \/ \E stream \in {"stdout", "stderr"} : UserWrite(stream)
    \/ UserFigure
    \/ \E entry \in {hook_show, hook_pyplot_show} : PylabShow(entry)
    \/ \E figure \in fignums : FigureShow(figure)
    \/ UserReturn
    \/ \E e \in Cooperative \cup ErrorKinds : UserRaise(e)
    \/ ExecuteReturn
    \/ ExecuteReraise
    \/ CallerGoesOn

SpecCaller == Init /\ [][NextCaller]_vars

\* the grouper alone, on every script
SpecGroup == InitGroup /\ [][ReadGroups]_vars

\* the classifier alone, on every line of tokens
SpecLine == InitLine /\ [][Classify]_vars

\* _equalize_docstring alone, on every text
SpecDoc == InitDoc /\ [][Equalize]_vars

\* the grouper and extract_docstrings, on the scripts with blocks and strings
SpecNotes == InitNotes /\ [][ReadGroups \/ Extract]_vars

(***************************************************************************)
(* Properties                                                              *)
(***************************************************************************)
\* the groups that hold a token of row r of the script
GroupsOfRow(r) ==
    {i \in 1..Len(groups) :
        \E k \in 1..Len(groups[i].tokens) : groups[i].tokens[k].srow = r}

\* has the group at position i been given results ?
Executed(i) == DOMAIN groups[i].results # {}

IsPrefix(a, b) == Len(a) <= Len(b) /\ SubSeq(b, 1, Len(a)) = a

\* C1: once a script that holds a statement is cut into groups, the texts
\* str(group) of the groups, joined in order, are the text of the script,
\* also when comments or blank lines follow the last statement.
C1_RoundTrip ==
    (pc = "loop" /\ StmtIdx(src) # {}) =>
        Flatten([i \in 1..Len(groups) |-> Str(groups[i].tokens)])
            = SourceText(src)

\* the texts that the results of the executed groups hold for a stream
AllOutput(field) ==
    Flatten([i \in 1..Len(groups) |->
                IF Executed(i) THEN groups[i].results[field] ELSE <<>>])

NoResultsAfterInterrupt ==
    \A i, j \in 1..Len(groups) :
        (i < j /\ Executed(i) /\ groups[i].results.interrupted) => ~Executed(j)

\* C3: when the code of a group ends with SystemExit or KeyboardInterrupt,
\* execute returns results with interrupted true and raises nothing, and no
\* group after an interrupted group is ever given results.
C3_InterruptStops ==
    [][/\ (pc = "ran" /\ signal \in {"SystemExit", "KeyboardInterrupt"}) =>
            /\ pc' = "loop"
            /\ raised' = NoException
            /\ DOMAIN groups'[idx].results # {}
            /\ groups'[idx].results.interrupted
       /\ NoResultsAfterInterrupt']_vars

\* the first of two groups asked to stop, and run_file went past the second
C3_Witness ==
    /\ pc = "compile" /\ Len(groups) = 2
    /\ Executed(1) /\ groups[1].results.interrupted
    /\ ~Executed(2)

\* C4: a group that was never executed compiles: compile raises nothing
\* for it and returns a fragment with an empty mapping of figures.
C4_UnexecutedCompiles ==
    /\ raised.type # "UnboundLocalError"
    /\ \A k \in 1..Len(compile_results) :
          ~Executed(k) => compile_results[k].figure_dict = EmptyDict

\* C5: when the code of a group raises an ordinary error, what execute
\* raises is of the class of that error, and its message holds the index of
\* the group, the text of the group and the repr of the error.
C5_ErrorAnnotated ==
    (pc = "aborted" /\ raised.context # "None") =>
        /\ raised.type = raised.context
        /\ raised.annotated
        /\ raised.index = idx - 1
        /\ raised.source = Str(groups[idx].tokens)
        /\ raised.repr = raised.context

\* C6: outside the execution of a group, sys.stdout, sys.stderr and the
\* three shows are the original ones, however the group ended.
C6_Restored ==
    pc \notin {"body", "ran"} =>
        /\ sys_stdout = "original" /\ sys_stderr = "original"
        /\ hook_show = "pylab" /\ hook_figure_show = "pylab"
        /\ hook_pyplot_show = "pylab"

\* a group ended with an ordinary error, which left run_file
C6_Witness ==
    /\ pc = "aborted" /\ raised.context \in ErrorKinds
    /\ sys_stdout = "original" /\ hook_figure_show = "pylab"

\* the rows of the script with a clause (elif, else, except, finally) that
\* is not indented
ClauseRows ==
    {r \in 1..Len(src) :
        IsCompound(src[r]) /\ src[r].kw \in ClauseKeywords /\ src[r].ind = 0}

\* C7: a clause at depth 0 is in the group of the clause or header before
\* it, with all the rows between them, and in no other group: a chain of
\* clauses is one group.
C7_ChainsInOneGroup ==
    pc = "loop" =>
        \A r \in ClauseRows :
            /\ Cardinality(GroupsOfRow(r)) = 1
            /\ \A q \in PrevAtMost(src, r - 1, 0)..r :
                  GroupsOfRow(q) = GroupsOfRow(r)

\* a clause follows the indented body of a header, as a dedent
C7_Witness ==
    /\ pc = "loop"
    /\ \E r \in ClauseRows :
          /\ src[PrevAtMost(src, r - 1, 0)].kind = "block"
          /\ GroupsOfRow(r) = {1}

\* the row of the definition that the decorator at row r decorates
DefRow(r) ==
    Min({q \in (r + 1)..Len(src) : IsCompound(src[q]) /\ src[q].kw = "def"})

\* C8: a decorator is in the group of the definition it decorates, and in
\* no other group.
C8_DecoratorWithDef ==
    pc = "loop" =>
        \A r \in 1..Len(src) :
            src[r].kind \in {"dec", "decopen"} =>
                /\ Cardinality(GroupsOfRow(r)) = 1
                /\ GroupsOfRow(r) = GroupsOfRow(DefRow(r))

\* C9: _is_docstring returns a non-empty content exactly for the lines
\* whose tokens are all indents, dedents, comments, newlines, blank-line
\* ends, encoding or end markers or strings, and whose strings, evaluated
\* and joined, are not empty.
C9_DocstringIff ==
    pc = "classified" =>
        LET strings == {k \in 1..Len(arg_line) : arg_line[k].type = "STRING"}
        IN  ret_content # <<>> <=>
              /\ \A k \in 1..Len(arg_line) :
                    arg_line[k].type \in
                        {"INDENT", "DEDENT", "COMMENT", "NEWLINE", "NL",
                         "ENCODING", "ENDMARKER", "STRING"}
              /\ \E k \in strings : arg_line[k].string # <<"''">>

\* a string alone on its line, after a comment, is a docstring
C9_Witness ==
    /\ pc = "classified" /\ ret_content = <<"s">>
    /\ Len(arg_line) = 3
    /\ arg_line[1].type = "COMMENT"
    /\ arg_line[2].type = "STRING" /\ arg_line[3].type = "NEWLINE"

\* how often the figures figs hold the png that pylab_show wrote for fig
ShowCount(fig, figs) ==
    Cardinality({k \in 1..Len(figs) : figs[k] = Png(fig, "pylab_show")})

\* C10: a figure that pylab_show recorded while a group was executing is
\* once among the figures of the results of that group, and is not among
\* the figures that pylab_show wrote for any other group.
C10_ShownOnce ==
    \A fig \in DOMAIN first_shown :
        \A i \in 1..Len(groups) :
            Executed(i) =>
                ShowCount(fig, groups[i].results.generated_figures)
                    = IF i = first_shown[fig] THEN 1 ELSE 0

\* is every character of the text a blank or a tab ?
IsWhite(text) == \A k \in 1..Len(text) : text[k] \in {" ", "\t"}

\* the number of blanks and tabs that the line starts with
Indentation(l) ==
    CHOOSE n \in 0..Len(l) :
        /\ IsWhite(SubSeq(l, 1, n))
        /\ n < Len(l) => l[n + 1] \notin {" ", "\t"}

\* the lines after the first of the lines ls that are not blank
Continuations(ls) == {k \in 2..Len(ls) : ~IsWhite(ls[k])}

\* the lines ls are the lines of the text handed to _equalize_docstring and
\* what it returned is the first line as it was, the blank lines as they
\* were, and every other line without its first m characters, which are
\* blanks or tabs
EqualizedBy(m, ls) ==
    LET out == Split(ret_docstring, <<>>)
    IN  /\ Len(out) = Len(ls)
        /\ out[1] = ls[1]
        /\ \A k \in 2..Len(ls) :
              IF k \in Continuations(ls)
              THEN /\ m <= Indentation(ls[k])
                   /\ out[k] = SubSeq(ls[k], m + 1, Len(ls[k]))
              ELSE out[k] = ls[k]

\* C11 as stated: every line after the first loses exactly m blanks, m the
\* least indentation that is not zero among the lines after the first that
\* are not blank; the blank lines and the first line are as they were.
C11_MinNonZeroIndent ==
    pc = "equalized" =>
        LET ls == SplitLines(arg_docstring)
            nonzero == {Indentation(ls[k]) : k \in Continuations(ls)} \ {0}
        IN  IF Len(ls) <= 1 THEN ret_docstring = arg_docstring
            ELSE EqualizedBy(IF nonzero = {} THEN 0 ELSE Min(nonzero), ls)

\* C11 amended: m is the least indentation, zero included, among the lines
\* after the first that are not blank (0 when there is none): a line that
\* is not indented keeps every line as it was.
C11_MinIndent ==
    pc = "equalized" =>
        LET ls == SplitLines(arg_docstring)
            all == {Indentation(ls[k]) : k \in Continuations(ls)}
        IN  IF Len(ls) <= 1 THEN ret_docstring = arg_docstring
            ELSE EqualizedBy(IF all = {} THEN 0 ELSE Min(all), ls)

\* a text whose second line is blank and whose third line is indented by
\* one: the blank line stays and the third line loses its blank
C11_Witness ==
    /\ pc = "equalized"
    /\ arg_docstring = <<"s", "\n", " ", "\n", " ", "s">>
    /\ ret_docstring = <<"s", "\n", " ", "\n", "s">>

\* the file names of the image lines of a fragment, in the order of the lines
ImageRefs(rst) ==
    LET at == Sorted({p \in 1..(Len(rst) - 2) : rst[p] = ".. image:: "})
    IN  [j \in 1..Len(at) |-> rst[at[j] + 2]]

\* has compile returned for the group at position k, which was executed and
\* is no docstring ?
CompiledCode(k) ==
    /\ k \in 1..Len(compile_results)
    /\ Executed(k)
    /\ IsDocstring(groups[k].tokens) = <<>>

\* C12: for an executed group that is no docstring, the mapping that
\* compile returns has one entry for each figure of the results, under the
\* key figure_{i}_{k}.png with i the position of the group counted from 0
\* and k the place of the figure in the results counted from 0; the fragment
\* has one image line for each entry, in that order; and no name is used
\* for two figures, of the same or of different groups.
C12_FigureNames ==
    /\ \A k \in 1..Len(compile_results) :
          CompiledCode(k) =>
            LET figs == groups[k].results.generated_figures
                fd == compile_results[k].figure_dict
                name(j) == "figure_" \o ToString(k - 1) \o "_"
                                    \o ToString(j - 1) \o ".png"
            IN  /\ DOMAIN fd = {name(j) : j \in 1..Len(figs)}
                /\ Cardinality(DOMAIN fd) = Len(figs)
                /\ \A j \in 1..Len(figs) : fd[name(j)] = figs[j]
                /\ ImageRefs(compile_results[k].rst)
                      = [j \in 1..Len(figs) |-> name(j)]
    /\ \A k1, k2 \in 1..Len(compile_results) :
          k1 # k2 =>
            DOMAIN compile_results[k1].figure_dict
              \cap DOMAIN compile_results[k2].figure_dict = {}

\* the first group drew two figures and the second group one, and the
\* three files are written
C12_Witness ==
    /\ pc = "done" /\ Len(compile_results) = 2
    /\ CompiledCode(1) /\ CompiledCode(2)
    /\ Len(groups[1].results.generated_figures) = 2
    /\ Len(groups[2].results.generated_figures) = 1
    /\ {"figure_0_0.png", "figure_0_1.png", "figure_1_0.png"} \subseteq files

\* an exception that execute raised for an ordinary error has left run_file
ErrorLeft == pc = "aborted" /\ raised.context # "None"

\* C13: when the code of a group raises an ordinary error, an exception
\* leaves run_file; from then on nothing happens: the groups from that one
\* on have no results, no group is compiled and no file is written.
C13_ErrorAborts ==
    [][/\ (pc = "ran" /\ signal \in ErrorKinds) => ErrorLeft'
       /\ ~ErrorLeft
       /\ ErrorLeft' =>
            /\ compile_results' = <<>>
            /\ files' = {}
            /\ \A j \in idx'..Len(groups') : DOMAIN groups'[j].results = {}]_vars

\* the first of two groups wrote a character and raised an error: the
\* second has no results and nothing is compiled
C13_Witness ==
    /\ ErrorLeft /\ Len(groups) = 2 /\ idx = 1
    /\ my_stdout = <<"1">>
    /\ ~Executed(2) /\ compile_results = <<>> /\ files = {}

C15_LinesPreserved ==
    pc = "loop" =>
        Flatten([i \in 1..Len(groups) |-> Lines(groups[i])])
            = GenerateLogicalLines(Tokenize(src))

\* a script of three logical lines in two groups, the first of two lines
C15_Witness ==
    /\ pc = "loop" /\ Len(groups) = 2
    /\ Len(Lines(groups[1])) = 2 /\ Len(Lines(groups[2])) = 1
    /\ Len(GenerateLogicalLines(Tokenize(src))) = 3

\* C16: the tokens of the groups, group after group, are the tokens of the
\* script in their order, the tokens after the last NEWLINE token included:
\* every token is in one group and in one only.
C16_TokensPreserved ==
    pc = "loop" =>
        Flatten([i \in 1..Len(groups) |-> groups[i].tokens]) = Tokenize(src)

\* the rows of the script where a logical line starts
LogicalRows == {r \in StmtIdx(src) : src[r].kind # "close"}

\* the row where the logical line before the one of row r starts, or 0
PrevLogical(r) ==
    LET before == {q \in LogicalRows : q < r}
    IN  IF before = {} THEN 0 ELSE CHOOSE q \in before : \A p \in before : p <= q

\* is the logical line that starts at row q a decorator ?
IsDecoratorLine(q) == q > 0 /\ src[q].kind \in {"dec", "decopen"}

\* is the logical line that starts at row r a clause that continues a
\* compound statement ?
IsClauseLine(r) == IsCompound(src[r]) /\ src[r].kw \in ClauseKeywords

\* is there a boundary of groups just before the logical line of row r ?
Boundary(r) ==
    /\ PrevLogical(r) > 0
    /\ GroupsOfRow(r) \cap GroupsOfRow(PrevLogical(r)) = {}

\* does a statement of the top level start at row r ? (a decorated
\* definition starts at its first decorator)
TopLevel(r) ==
    /\ r \in LogicalRows /\ src[r].ind = 0
    /\ ~IsClauseLine(r) /\ ~IsDecoratorLine(PrevLogical(r))

\* C17: there is a boundary just before a logical line exactly when the
\* depth after the line is 0, a line is pending, the last pending line is
\* no decorator and the line is no continuation clause; the last pending
\* lines become the last group; hence every group holds one statement of
\* the top level, with its body, its decorators and its clauses.
C17_BoundaryRule ==
    pc = "loop" =>
        /\ \A r \in LogicalRows :
              Boundary(r) <=>
                /\ src[r].ind = 0
                /\ PrevLogical(r) > 0
                /\ ~IsDecoratorLine(PrevLogical(r))
                /\ ~IsClauseLine(r)
        /\ \A r \in LogicalRows : GroupsOfRow(r) # {}
        /\ \A i \in 1..Len(groups) :
              Cardinality({r \in LogicalRows :
                              TopLevel(r) /\ i \in GroupsOfRow(r)}) = 1

\* the groups with results are the first n groups, for some n
ResultsArePrefix ==
    \E n \in 0..Len(groups) : \A i \in 1..Len(groups) : Executed(i) <=> i <= n

\* C18: run_file executes the groups in the order of the script and each
\* at most once: the group whose execution starts has no results yet and
\* is the first without results; the groups with results are always a
\* prefix of the groups; and results once stored are not stored again.
C18_InOrderOnce ==
    [][/\ (pc = "loop" /\ pc' = "body") =>
            /\ \A j \in 1..(idx - 1) : Executed(j)
            /\ \A j \in idx..Len(groups) : ~Executed(j)
       /\ ResultsArePrefix'
       /\ \A i \in 1..Len(groups) :
            Executed(i) => (pc' # "body" \/ idx' # i)
                           /\ groups'[i].results = groups[i].results]_vars

\* the second of two groups is executing after the first
C18_Witness ==
    /\ pc = "body" /\ idx = 2 /\ Len(groups) = 2
    /\ Executed(1) /\ ~Executed(2)

\* how many of the figures figs did figure_show write ?
FigureShowCount(figs) ==
    Cardinality({k \in 1..Len(figs) : figs[k].by = "figure_show"})

\* C19: every call of figure_show while a group executes adds one png to
\* the figures of the results of that group, whether the figure is in
\* fig_index or not, and whatever pylab_show is called before or after it
\* in the group: the call adds one png to the queue and leaves fig_index as
\* it is, no later step of the group takes a png of figure_show out of the
\* queue, and the results are given the queue.
C19_FigureShowKept ==
    [][/\ (\E figure \in fignums : FigureShow(figure)) =>
            /\ FigureShowCount(last_drawn') = FigureShowCount(last_drawn) + 1
            /\ fig_index' = fig_index
       /\ (pc = "body" /\ pc' \in {"body", "ran"}) =>
            FigureShowCount(last_drawn') >= FigureShowCount(last_drawn)
       /\ (pc = "ran" /\ pc' = "loop") =>
            FigureShowCount(groups'[idx].results.generated_figures)
                = FigureShowCount(last_drawn)]_vars

\* the rows where the logical lines of the group at position i start, in
\* the order of the script
RowsOfGroup(i) == Sorted({r \in LogicalRows : i \in GroupsOfRow(r)})

\* the places k of the rows where a string stands alone on its logical
\* line, is not the first line, and follows a line that is no such string
\* and ends with the colon
NotePlaces(rows) ==
    SelectSeq([k \in 1..Len(rows) |-> k],
              LAMBDA k : /\ src[rows[k]].kind = "doc"
                         /\ k > 1
                         /\ src[rows[k - 1]].kind # "doc"
                         /\ src[rows[k - 1]].kind = "block")

\* C20: extract_docstrings returns one annotation for every logical line
\* of the group that is a docstring, is not the first line, and follows a
\* line that is no docstring and whose last significant token is ':', and
\* none for any other line; the annotations are in the order of the lines.
C20_NotesIff ==
    pc = "extracted" =>
        \A i \in 1..Len(groups) :
            LET rows == RowsOfGroup(i)
                at == NotePlaces(rows)
                lines == Lines(groups[i])
            IN  /\ Len(lines) = Len(rows)
                /\ ret_docstrings[i].ok
                /\ ret_docstrings[i].docstrings =
                      [j \in 1..Len(at) |->
                          DocstringText(lines[at[j] - 1], lines[at[j]])]

\* the places of a fragment where the symbol sym stands
PlacesOf(rst, sym) == {p \in 1..Len(rst) : rst[p] = sym}

\* the places of a fragment where a literal block starts a line
LiteralPlaces(rst) ==
    {p \in 2..Len(rst) : rst[p] = "::" /\ rst[p - 1] = "\n"}

\* is every place of A before every place of B ?
AllBefore(A, B) == \A p \in A : \A q \in B : p < q

\* the fragment that compile returned for the group at position k is the
\* code, then the annotations, then the blocks of the results in order
FragmentInOrder(k) ==
    LET rst == compile_results[k].rst
        r == groups[k].results
        note == PlacesOf(rst, ".. note::")
        err == PlacesOf(rst, ".. warning::")
        exc == PlacesOf(rst, ".. warning:: Exception Raised")
        out == LiteralPlaces(rst)
        img == PlacesOf(rst, ".. image:: ")
        written == {ToString(i) : i \in 1..Len(groups)}
    IN  /\ rst[1] = ".. code:: python"
        /\ Cardinality(note) = Len(NotePlaces(RowsOfGroup(k)))
        /\ Cardinality(err) = IF r.standard_error # <<>> THEN 1 ELSE 0
        /\ Cardinality(exc) = IF r.exceptions_generated # "None" THEN 1 ELSE 0
        /\ Cardinality(out) = IF r.standard_output # <<>> THEN 1 ELSE 0
        /\ Cardinality(img) = Len(r.generated_figures)
        /\ AllBefore({1}, note \cup err \cup exc \cup out \cup img)
        /\ AllBefore(note, err \cup exc \cup out \cup img)
        /\ AllBefore(err, exc \cup out \cup img)
        /\ AllBefore(exc, out \cup img)
        /\ AllBefore(out, img)
        /\ SelectSeq(rst, LAMBDA c : c \in written)
              = r.standard_error \o r.standard_output

\* the fragment that compile returned last
LastFragmentInOrder ==
    LET k == Len(compile_results)
    IN  CompiledCode(k) => FragmentInOrder(k)

\* C21: the fragment of an executed group that is no docstring is the code
\* block, then the annotations of its docstrings, then a warning block for
\* stderr exactly when stderr is not empty, a warning block for the
\* exception exactly when one is recorded, a literal block for stdout
\* exactly when stdout is not empty, and one image line for every figure,
\* in this order; a write to stderr raises nothing and stops nothing.
C21_FragmentOrder ==
    [][/\ compile_results' # compile_results => LastFragmentInOrder'
       /\ my_stderr' # my_stderr =>
            /\ pc' = pc /\ signal' = signal
            /\ raised' = raised /\ do_execute' = do_execute]_vars

\* the run of a definition with a docstring that wrote to stderr and to
\* stdout and drew a figure is done: its fragment has the five parts
C21_Witness ==
    /\ pc = "done" /\ Len(compile_results) = 1 /\ CompiledCode(1)
    /\ Len(NotePlaces(RowsOfGroup(1))) = 1
    /\ groups[1].results.standard_error # <<>>
    /\ groups[1].results.standard_output # <<>>
    /\ Len(groups[1].results.generated_figures) = 1
    /\ "rst" \in files

\* C22: the groups that iterate_groups_from_source yields are linked in
\* the order it yields them: the first has no previous group and every
\* other has the group yielded just before it; get_index of the k-th group,
\* k counted from 0, is k, so the indexes are 0..n-1 without gap or
\* repeat, whenever it is called once the groups exist.
C22_IndexIsPosition ==
    \A k \in 1..Len(groups) :
        /\ groups[k].previous = k - 1
        /\ GetIndex(groups, groups[k]) = k - 1

\* a script of three groups: the index of the last is 2
C22_Witness ==
    /\ pc = "loop" /\ Len(groups) = 3
    /\ GetIndex(groups, groups[3]) = 2

\* the last group before group i that has results, 0 when there is none
LastReturned(i) ==
    LET S == {j \in 1..(i - 1) : Executed(j)}
    IN  IF S = {} THEN 0 ELSE CHOOSE j \in S : \A m \in S : m <= j

\* the text in a sink that the groups a..b wrote
WrittenSince(sink, a, b) ==
    SelectSeq(sink, LAMBDA c : \E j \in a..b : c = ToString(j))

====
